---- MODULE Spec2Model ----
(***************************************************************************)
(* The scoring phase of variant-go-server (shared/src/states/scoring.rs):  *)
(* ScoringState, its action handlers and the territory scorer score_board. *)
(***************************************************************************)
EXTENDS Integers, Sequences, FiniteSets, TLC

\* ------------------------------------------------------------------ bounds
MaxCells == 4        \* SpecBoard: boards have width * height <= MaxCells
SeatedCells == 2     \* Spec: boards have width * height <= SeatedCells
NumTeams == 2        \* team colors are 1..NumTeams, 0 is the empty color
MaxSeats == 2        \* the seat list has 0..MaxSeats entries
NumPlayers == 2      \* player identifiers are 1..NumPlayers

Teams == 1..NumTeams
Colors == 0..NumTeams
PlayerIds == 1..NumPlayers

\* Option<u64>: None is the empty sequence, Some(p) is <<p>>.
None == <<>>
Some(p) == <<p>>

\* --------------------------------------------------- Board primitives
\* crate::game::Board: width, height, toroidal and the flattened points,
\* index y * width + x (kept 1-based here: points[y * width + x + 1]).
BoardEmpty(width, height, toroidal) ==
    [width |-> width, height |-> height, toroidal |-> toroidal,
     points |-> [i \in 1..(width * height) |-> 0]]

idx_to_coord(b, idx) == <<idx % b.width, idx \div b.width>>

point_idx(b, p) == p[2] * b.width + p[1] + 1

get_point(b, p) == b.points[point_idx(b, p)]

BoardCoords(b) == {<<x, y>> : x \in 0..(b.width - 1), y \in 0..(b.height - 1)}

Directions == << <<-1, 0>>, <<1, 0>>, <<0, -1>>, <<0, 1>> >>

\* One neighbour, as Option<Point>: wrapped on a toroidal board, dropped when
\* it falls off a bounded board.
wrap_point(b, x, y) ==
    IF b.toroidal
    THEN Some(<<(x + b.width) % b.width, (y + b.height) % b.height>>)
    ELSE IF x >= 0 /\ x < b.width /\ y >= 0 /\ y < b.height
         THEN Some(<<x, y>>)
         ELSE None

RECURSIVE Flatten(_)
Flatten(ss) == IF ss = <<>> THEN <<>> ELSE Head(ss) \o Flatten(Tail(ss))

\* The neighbours of p in direction order (duplicates are possible on a
\* toroidal board of width or height 1 or 2).
surrounding_points(b, p) ==
    Flatten([d \in 1..4 |-> wrap_point(b, p[1] + Directions[d][1], p[2] + Directions[d][2])])

SeqToSet(s) == {s[i] : i \in 1..Len(s)}

\* find_groups: the maximal connected sets of same-colored stones, in the
\* order of their first point in the flattened board, every group alive.
RECURSIVE GrowGroup(_, _, _)
GrowGroup(b, c, ps) ==
    LET more == {q \in BoardCoords(b) :
                    /\ q \notin ps
                    /\ get_point(b, q) = c
                    /\ \E p \in ps : q \in SeqToSet(surrounding_points(b, p))}
    IN IF more = {} THEN ps ELSE GrowGroup(b, c, ps \cup more)

RECURSIVE FindGroupsFrom(_, _, _)
FindGroupsFrom(b, idx, found) ==
    IF idx >= b.width * b.height THEN found
    ELSE LET p == idx_to_coord(b, idx)
             c == get_point(b, p)
         IN IF c = 0 \/ \E i \in 1..Len(found) : p \in found[i].points
            THEN FindGroupsFrom(b, idx + 1, found)
            ELSE FindGroupsFrom(b, idx + 1,
                     Append(found, [points |-> GrowGroup(b, c, {p}),
                                    team |-> c, alive |-> TRUE]))

find_groups(b) == FindGroupsFrom(b, 0, <<>>)

\* ------------------------------------------------------- score_board
\* Stamp color c on every point of the set ps.
PaintPoints(b, ps, c) ==
    [b EXCEPT !.points = [i \in DOMAIN b.points |->
                             IF idx_to_coord(b, i - 1) \in ps THEN c ELSE b.points[i]]]

\* FillLiving, stamping the dead groups too.
RECURSIVE FillEvery(_, _)
FillEvery(b, gs) ==
    IF gs = <<>> THEN b
    ELSE FillEvery(PaintPoints(b, Head(gs).points, Head(gs).team), Tail(gs))

\* "Fill living groups to the board": the groups in order, dead ones skipped.
RECURSIVE FillLiving(_, _)
FillLiving(b, gs) ==
    IF gs = <<>> THEN b
    ELSE IF ~Head(gs).alive
         THEN FillLiving(b, Tail(gs))
         ELSE FillLiving(PaintPoints(b, Head(gs).points, Head(gs).team), Tail(gs))

\* "Find empty points": the coordinates of the empty points in index order.
EmptyPoints(b) ==
    LET all == [i \in 1..(b.width * b.height) |-> idx_to_coord(b, i - 1)]
        is_empty(p) == get_point(b, p) = 0
    IN SelectSeq(all, is_empty)

\* enum SeenTeams { Zero, One(Color), Many }
Zero == [tag |-> "Zero", color |-> 0]
One(c) == [tag |-> "One", color |-> c]
Many == [tag |-> "Many", color |-> 0]

\* Collide, keeping the last color seen.
CollideKeepLast(collisions, c) == One(c)

\* Collide, keeping the first color seen when another one turns up.
CollideKeepFirst(collisions, c) ==
    IF collisions.tag = "Zero" THEN One(c) ELSE collisions

Collide(collisions, c) ==
    IF collisions.tag = "Zero" THEN One(c)
    ELSE IF collisions.tag = "One" /\ collisions.color = c THEN collisions
    ELSE Many

\* VisitNeighbour, leaving the point reached among the candidates.
VisitNeighbourKeepCandidate(b, f, point) ==
    IF point \in f.seen THEN f
    ELSE LET g == [f EXCEPT !.seen = @ \cup {point}]
         IN IF get_point(b, point) = 0
            THEN [g EXCEPT !.stack = Append(@, point)]
            ELSE [g EXCEPT !.collisions = Collide(@, get_point(b, point))]

\* The body of `for point in board.surrounding_points(point)` for one
\* neighbour: skipped when already seen, queued and struck off the candidate
\* list when empty, recorded as a collision otherwise.
VisitNeighbour(b, f, point) ==
    IF point \in f.seen THEN f
    ELSE LET g == [f EXCEPT !.seen = @ \cup {point}]
             other(x) == x # point
         IN IF get_point(b, point) = 0
            THEN [g EXCEPT !.stack = Append(@, point),
                           !.legal_points = SelectSeq(g.legal_points, other)]
            ELSE [g EXCEPT !.collisions = Collide(@, get_point(b, point))]

RECURSIVE VisitNeighbours(_, _, _)
VisitNeighbours(b, f, ns) ==
    IF ns = <<>> THEN f
    ELSE VisitNeighbours(b, VisitNeighbour(b, f, Head(ns)), Tail(ns))

\* `while let Some(point) = stack.pop_front()`
RECURSIVE FloodFill(_, _)
FloodFill(b, f) ==
    IF f.stack = <<>> THEN f
    ELSE LET point == Head(f.stack)
             f1 == [f EXCEPT !.stack = Tail(@), !.marked = Append(@, point)]
         IN FloodFill(b, VisitNeighbours(b, f1, surrounding_points(b, point)))

\* "The floodfill touched only a single color -> this must be their territory"
MarkTerritory(b, f) ==
    IF f.collisions.tag = "One"
    THEN PaintPoints(b, SeqToSet(f.marked), f.collisions.color)
    ELSE b

\* `while let Some(point) = legal_points.pop()`: the last candidate starts a
\* flood fill with `seen` and `marked` empty.
RECURSIVE ScoreRegions(_, _)
ScoreRegions(b, legal_points) ==
    IF legal_points = <<>> THEN b
    ELSE LET point == legal_points[Len(legal_points)]
             f == FloodFill(b, [stack |-> <<point>>,
                                legal_points |-> SubSeq(legal_points, 1, Len(legal_points) - 1),
                                seen |-> {},
                                marked |-> <<>>,
                                collisions |-> Zero])
         IN ScoreRegions(MarkTerritory(b, f), f.legal_points)

\* score_board, building its fresh board without the wraparound flag.
score_board_bounded(board, groups) ==
    LET b == FillLiving(BoardEmpty(board.width, board.height, FALSE), groups)
    IN ScoreRegions(b, EmptyPoints(b))

score_board(board, groups) ==
    LET b == FillLiving(BoardEmpty(board.width, board.height, board.toroidal), groups)
    IN ScoreRegions(b, EmptyPoints(b))

\* ------------------------------------------------------- ScoringState
\* The increment of a team's score per point of its color.
ScoreIncrement == 2

\* AddTerritory, counting one score unit per point.
RECURSIVE AddTerritoryOneEach(_, _)
AddTerritoryOneEach(scores, colors) ==
    IF colors = <<>> THEN scores
    ELSE LET c == Head(colors)
         IN AddTerritoryOneEach(IF c # 0 THEN [scores EXCEPT ![c] = @ + 1] ELSE scores,
                                Tail(colors))

\* `for color in &points.points { if !color.is_empty() { scores[color - 1] += 2 } }`
\* (scores is kept 1-based: scores[color]).
RECURSIVE AddTerritory(_, _)
AddTerritory(scores, colors) ==
    IF colors = <<>> THEN scores
    ELSE LET c == Head(colors)
         IN AddTerritory(IF c # 0 THEN [scores EXCEPT ![c] = @ + ScoreIncrement] ELSE scores,
                         Tail(colors))

\* ScoringStateNew, with acceptance flags for the assigned seats only.
ScoringStateNewAssignedOnly(board, seats, scores) ==
    LET gs == find_groups(board)
        pts == score_board(board, gs)
        has_player(s) == s.player # None
        assigned == SelectSeq(seats, has_player)
    IN [groups |-> gs,
        points |-> pts,
        scores |-> AddTerritory(scores, pts.points),
        players_accepted |-> [i \in 1..Len(assigned) |-> assigned[i].resigned]]

\* ScoringState::new(board, seats, scores)
ScoringStateNew(board, seats, scores) ==
    LET gs == find_groups(board)
        pts == score_board(board, gs)
    IN [groups |-> gs,
        points |-> pts,
        scores |-> AddTerritory(scores, pts.points),
        players_accepted |-> [i \in 1..Len(seats) |-> seats[i].resigned]]

\* ------------------------------------------------------- the state
VARIABLES
    shared,            \* SharedState: board, seats, points (the score baseline)
    groups,            \* ScoringState.groups
    points,            \* ScoringState.points, the territory board
    scores,            \* ScoringState.scores
    players_accepted,  \* ScoringState.players_accepted
    change,            \* the ActionChange returned by the last make_action
    last,              \* the last call: kind, player, point, hit, repeated
    prev               \* the state the last call started from

vars == <<shared, groups, points, scores, players_accepted, change, last, prev>>

\* The boards, seat lists and baselines a game can end its play phase with.
BoardsUpTo(cells) ==
    UNION {[width : {w}, height : {h}, toroidal : BOOLEAN, points : [1..(w * h) -> Colors]] :
              <<w, h>> \in {d \in (1..cells) \X (1..cells) : d[1] * d[2] <= cells}}

SeatValues == [player : {None} \cup {Some(p) : p \in PlayerIds}, resigned : BOOLEAN]

SeatLists == UNION {[1..n -> SeatValues] : n \in 0..MaxSeats}

\* A single seat, held by player 1 and not resigned.
PlainSeats == <<[player |-> Some(1), resigned |-> FALSE]>>

Baselines == {[t \in Teams |-> 3 * t - 4]}

Snapshot ==
    [groups |-> groups, points |-> points, scores |-> scores,
     players_accepted |-> players_accepted, seats |-> shared.seats]

NoPoint == <<0, 0>>

\* The play phase ends: the caller builds the ScoringState from the shared
\* board, the shared seats and the shared score vector.
EnterScoring(boards, seat_lists) ==
    /\ shared \in [board : boards, seats : seat_lists, points : Baselines]
    /\ LET s == ScoringStateNew(shared.board, shared.seats, shared.points)
       IN /\ groups = s.groups
          /\ points = s.points
          /\ scores = s.scores
          /\ players_accepted = s.players_accepted
          /\ prev = [groups |-> s.groups, points |-> s.points, scores |-> s.scores,
                     players_accepted |-> s.players_accepted, seats |-> shared.seats]
    /\ change = "None"
    /\ last = [kind |-> "New", player |-> 0, point |-> NoPoint, hit |-> FALSE,
               repeated |-> FALSE]

\* Every seat list, on the boards of at most SeatedCells cells.
Init == EnterScoring(BoardsUpTo(SeatedCells), SeatLists)

\* Every board of at most MaxCells cells, with the plain seat list.
InitBoard == EnterScoring(BoardsUpTo(MaxCells), {PlainSeats})

\* The dispatcher hands actions to the phase until it returns SwapState or
\* PopState: the ScoringState is then moved into Done, or dropped.
Active == change = "None"

AllAccepted(accepted) == \A i \in DOMAIN accepted : accepted[i]

\* `self.groups.iter_mut().find(|g| g.points.contains(&point))`: the index of
\* the first group holding the point, 0 when there is none.
FindGroup(gs, point) ==
    LET holding == {i \in 1..Len(gs) : point \in gs[i].points}
    IN IF holding = {} THEN 0 ELSE CHOOSE i \in holding : \A j \in holding : i <= j

\* ToggleAlive, marking the group dead whatever its flag.
MarkDead(gs, g) == [gs EXCEPT ![g].alive = FALSE]

\* `group.alive = !group.alive` on the group found.
ToggleAlive(gs, g) == [gs EXCEPT ![g].alive = ~@]

\* ResetAccepted, withdrawing every acceptance.
ResetAcceptedClear(accepted, seats) == [idx \in DOMAIN accepted |-> FALSE]

\* ResetAccepted, keeping the acceptances already given.
ResetAcceptedKeep(accepted, seats) ==
    [idx \in DOMAIN accepted |-> accepted[idx] \/ seats[idx].resigned]

\* `*accept = shared.seats[idx].resigned` for every index of players_accepted.
ResetAccepted(accepted, seats) == [idx \in DOMAIN accepted |-> seats[idx].resigned]

\* SeatsOf, stopping at the first seat of the player.
SeatsOfFirst(seats, player_id) ==
    LET held == {i \in 1..Len(seats) : seats[i].player = Some(player_id)}
    IN {i \in held : \A j \in held : i <= j}

\* SeatsOf, taking an unassigned seat for a seat of the player.
SeatsOfOrUnassigned(seats, player_id) ==
    {i \in 1..Len(seats) : seats[i].player = Some(player_id) \/ seats[i].player = None}

\* The seats `x.1.player == Some(player_id)` keeps.
SeatsOf(seats, player_id) == {i \in 1..Len(seats) : seats[i].player = Some(player_id)}

\* MarkAccepted, accepting for every seat.
MarkAcceptedAll(accepted, held) == [i \in DOMAIN accepted |-> TRUE]

\* MarkAccepted, overwriting the flags of the other seats.
MarkAcceptedOnly(accepted, held) == [i \in DOMAIN accepted |-> i \in held]

MarkAccepted(accepted, held) ==
    [i \in DOMAIN accepted |-> IF i \in held THEN TRUE ELSE accepted[i]]

\* ConsensusChange, satisfied with one accepted seat.
ConsensusChangeAny(accepted) ==
    IF \E i \in DOMAIN accepted : accepted[i] THEN "SwapState" ELSE "None"

\* The Pass and Resign result: SwapState(Done) when every seat accepted.
ConsensusChange(accepted) == IF AllAccepted(accepted) THEN "SwapState" ELSE "None"

\* make_action_place, resetting the acceptances before it looks for the group.
make_action_place_reset_first(point) ==
    /\ Active
    /\ LET g == FindGroup(groups, point)
       IN /\ last' = [kind |-> "Place", player |-> 0, point |-> point, hit |-> g # 0,
                      repeated |-> last.kind = "Place" /\ last.point = point]
          /\ prev' = Snapshot
          /\ change' = "None"
          /\ players_accepted' = ResetAccepted(players_accepted, shared.seats)
          /\ IF g = 0
             THEN UNCHANGED <<shared, groups, points, scores>>
             ELSE LET gs == ToggleAlive(groups, g)
                      pts == score_board(shared.board, gs)
                  IN /\ groups' = gs
                     /\ points' = pts
                     /\ scores' = AddTerritory(shared.points, pts.points)
                     /\ UNCHANGED shared

\* make_action_place, leaving the territory board as it was.
make_action_place_no_rescore(point) ==
    /\ Active
    /\ LET g == FindGroup(groups, point)
       IN /\ last' = [kind |-> "Place", player |-> 0, point |-> point, hit |-> g # 0,
                      repeated |-> last.kind = "Place" /\ last.point = point]
          /\ prev' = Snapshot
          /\ change' = "None"
          /\ IF g = 0
             THEN UNCHANGED <<shared, groups, points, scores, players_accepted>>
             ELSE /\ groups' = ToggleAlive(groups, g)
                  /\ scores' = AddTerritory(shared.points, points.points)
                  /\ players_accepted' = ResetAccepted(players_accepted, shared.seats)
                  /\ UNCHANGED <<shared, points>>

\* make_action with ActionKind::Place(x, y); the handler is not given the
\* player_id.
make_action_place(point) ==
    /\ Active
    /\ LET g == FindGroup(groups, point)
       IN /\ last' = [kind |-> "Place", player |-> 0, point |-> point, hit |-> g # 0,
                      repeated |-> last.kind = "Place" /\ last.point = point]
          /\ prev' = Snapshot
          /\ change' = "None"
          /\ IF g = 0
             THEN UNCHANGED <<shared, groups, points, scores, players_accepted>>
             ELSE LET gs == ToggleAlive(groups, g)
                      pts == score_board(shared.board, gs)
                  IN /\ groups' = gs
                     /\ points' = pts
                     /\ scores' = AddTerritory(shared.points, pts.points)
                     /\ players_accepted' = ResetAccepted(players_accepted, shared.seats)
                     /\ UNCHANGED shared

\* make_action_pass, testing the flags as they were before the update.
make_action_pass_stale(player_id) ==
    /\ Active
    /\ players_accepted' = MarkAccepted(players_accepted, SeatsOf(shared.seats, player_id))
    /\ change' = ConsensusChange(players_accepted)
    /\ last' = [kind |-> "Pass", player |-> player_id, point |-> NoPoint, hit |-> FALSE,
                repeated |-> FALSE]
    /\ prev' = Snapshot
    /\ UNCHANGED <<shared, groups, points, scores>>

\* make_action with ActionKind::Pass
make_action_pass(player_id) ==
    /\ Active
    /\ LET accepted == MarkAccepted(players_accepted, SeatsOf(shared.seats, player_id))
       IN /\ players_accepted' = accepted
          /\ change' = ConsensusChange(accepted)
    /\ last' = [kind |-> "Pass", player |-> player_id, point |-> NoPoint, hit |-> FALSE,
                repeated |-> FALSE]
    /\ prev' = Snapshot
    /\ UNCHANGED <<shared, groups, points, scores>>

\* make_action with ActionKind::Resign
make_action_resign(player_id) ==
    /\ Active
    /\ LET held == SeatsOf(shared.seats, player_id)
           accepted == MarkAccepted(players_accepted, held)
       IN /\ shared' = [shared EXCEPT !.seats =
                           [i \in DOMAIN shared.seats |->
                               IF i \in held THEN [shared.seats[i] EXCEPT !.resigned = TRUE]
                               ELSE shared.seats[i]]]
          /\ players_accepted' = accepted
          /\ change' = ConsensusChange(accepted)
    /\ last' = [kind |-> "Resign", player |-> player_id, point |-> NoPoint, hit |-> FALSE,
                repeated |-> FALSE]
    /\ prev' = Snapshot
    /\ UNCHANGED <<groups, points, scores>>

\* make_action_cancel, withdrawing the acceptances given so far.
make_action_cancel_reset(player_id) ==
    /\ Active
    /\ change' = "PopState"
    /\ players_accepted' = ResetAccepted(players_accepted, shared.seats)
    /\ last' = [kind |-> "Cancel", player |-> player_id, point |-> NoPoint, hit |-> FALSE,
                repeated |-> FALSE]
    /\ prev' = Snapshot
    /\ UNCHANGED <<shared, groups, points, scores>>

\* make_action with ActionKind::Cancel
make_action_cancel(player_id) ==
    /\ Active
    /\ change' = "PopState"
    /\ last' = [kind |-> "Cancel", player |-> player_id, point |-> NoPoint, hit |-> FALSE,
                repeated |-> FALSE]
    /\ prev' = Snapshot
    /\ UNCHANGED <<shared, groups, points, scores, players_accepted>>

\* The coordinates a Place can carry: every cell and one step past each edge.
PlaceCoords == {<<x, y>> : x \in 0..shared.board.width, y \in 0..shared.board.height}

Place == \E point \in PlaceCoords : make_action_place(point)
Pass == \E player_id \in PlayerIds : make_action_pass(player_id)
Resign == \E player_id \in PlayerIds : make_action_resign(player_id)
Cancel == \E player_id \in PlayerIds : make_action_cancel(player_id)

Next == Place \/ Pass \/ Resign \/ Cancel

Spec == Init /\ [][Next]_vars

SpecBoard == InitBoard /\ [][Next]_vars

\* The player holds a seat that has not accepted.
HoldsOpenSeat(player_id) ==
    \E i \in DOMAIN shared.seats :
        shared.seats[i].player = Some(player_id) /\ ~players_accepted[i]

\* A Pass or a Resign of a player who holds a seat that has not accepted.
AcceptBy(player_id) ==
    /\ HoldsOpenSeat(player_id)
    /\ make_action_pass(player_id) \/ make_action_resign(player_id)

\* The behaviours in which no player sits forever on a seat that has not
\* accepted: the players' side of the consensus protocol. The code schedules
\* nothing itself; Place and Cancel get no fairness.
SpecLive == Init /\ [][Next]_vars /\ \A p \in PlayerIds : WF_vars(AcceptBy(p))

\* ===================================================== the claims
SeatIdx == DOMAIN shared.seats

Acted == last.kind # "New"

Count(colors, t) == Cardinality({i \in DOMAIN colors : colors[i] = t})

\* ------------------------------------------------------------------ C1
\* C1 as stated: after any action, the directive is replace-with-Done if and
\* only if players_accepted is true for every seat.
C1_DoneIffAllAccepted ==
    Acted => (change = "SwapState" <=> AllAccepted(players_accepted))

\* C1 (amended): the directive is replace-with-Done if and only if the action
\* is a Pass or a Resign and, after it, players_accepted is true for every
\* seat; a Place returns no-change and a Cancel returns pop whatever the flags.
C1_DoneIffPassOrResignCompletes ==
    Acted =>
        /\ change = "SwapState" <=>
              (last.kind \in {"Pass", "Resign"} /\ AllAccepted(players_accepted))
        /\ last.kind = "Place" => change = "None"
        /\ last.kind = "Cancel" => change = "PopState"

\* A Pass that completed the consensus: the other seat, held by another player
\* and not resigned, had accepted before.
C1_Witness ==
    /\ last.kind = "Pass"
    /\ change = "SwapState"
    /\ \E i, j \in SeatIdx :
          /\ ~prev.players_accepted[i]
          /\ prev.players_accepted[j] /\ ~shared.seats[j].resigned
          /\ shared.seats[i].player # shared.seats[j].player

\* ------------------------------------------------------------------ C2
\* The territory rule, stated on the groups and the neighbour relation alone.
Covered(p) == \E i \in 1..Len(groups) : groups[i].alive /\ p \in groups[i].points

Adjacent(p, q) == q \in SeqToSet(surrounding_points(shared.board, p))

RECURSIVE RegionFrom(_)
RegionFrom(ps) ==
    LET more == {q \in BoardCoords(shared.board) :
                    q \notin ps /\ ~Covered(q) /\ \E p \in ps : Adjacent(p, q)}
    IN IF more = {} THEN ps ELSE RegionFrom(ps \cup more)

BorderColors(region) ==
    {groups[i].team : i \in {j \in 1..Len(groups) :
        /\ groups[j].alive
        /\ \E p \in region, q \in groups[j].points : Adjacent(p, q)}}

RegionOwner(region) ==
    LET cs == BorderColors(region)
    IN IF Cardinality(cs) = 1 THEN CHOOSE c \in cs : TRUE ELSE 0

\* C2: every maximal connected region of points not covered by an alive group
\* is attributed entirely to team c when the alive colors adjacent to it are
\* exactly {c}, and is left entirely neutral when they are none or several.
C2_RegionsOwnedBySingleBorderColor ==
    \A p \in BoardCoords(shared.board) :
        ~Covered(p) =>
            LET region == RegionFrom({p})
            IN \A q \in region : get_point(points, q) = RegionOwner(region)

\* After a dispute, one region is attributed to its single bordering team while
\* another is left neutral between two teams, and a dead stone lies in a region.
C2_Witness ==
    /\ last.kind = "Place" /\ last.hit
    /\ \E p, q \in BoardCoords(shared.board) :
          /\ ~Covered(p) /\ ~Covered(q)
          /\ get_point(points, p) # 0
          /\ Cardinality(BorderColors(RegionFrom({q}))) = 2
    /\ \E i \in 1..Len(groups) : ~groups[i].alive

\* ------------------------------------------------------------------ C3
\* C3: in every reachable state each team's score is its baseline (the shared
\* score vector, on the construction path and on the Place path alike) plus 2
\* times the number of points of the territory board of its color.
C3_ScoreIsBaselinePlusTwicePoints ==
    \A t \in Teams : scores[t] = shared.points[t] + 2 * Count(points.points, t)

\* A dispute changed the scores, and some team now owns two points or more.
C3_Witness ==
    /\ last.kind = "Place" /\ last.hit
    /\ scores # prev.scores
    /\ \E t \in Teams : Count(points.points, t) >= 2 /\ scores[t] # shared.points[t]

\* ------------------------------------------------------------------ C4
\* C4: a Place on the point of the Place just before it restores the alive
\* flags, the territory board and the scores the first Place started from.
C4_PlaceTwiceRestores ==
    [][(last'.kind = "Place" /\ last'.repeated) =>
          /\ groups' = prev.groups
          /\ points' = prev.points
          /\ scores' = prev.scores]_vars

\* Two Places on the same stone, straight after construction: the first one
\* changed the territory board and the scores, the second restored them.
C4_Witness ==
    /\ last.kind = "Place" /\ last.hit /\ last.repeated
    /\ points # prev.points
    /\ scores # prev.scores
    /\ \A i \in 1..Len(groups) : groups[i].alive

\* ------------------------------------------------------------------ C5
\* C5: after a Place whose point lies in some group, players_accepted[i]
\* equals shared.seats[i].resigned for every seat index i.
C5_PlaceResetsAcceptance ==
    (last.kind = "Place" /\ last.hit) =>
        /\ DOMAIN players_accepted = SeatIdx
        /\ \A i \in SeatIdx : players_accepted[i] = shared.seats[i].resigned

\* A dispute revoked the acceptance one of two seats had given by Pass.
C5_Witness ==
    /\ last.kind = "Place" /\ last.hit
    /\ Len(shared.seats) = 2
    /\ \E i \in SeatIdx :
          prev.players_accepted[i] /\ ~shared.seats[i].resigned /\ ~players_accepted[i]

\* ------------------------------------------------------------------ C6
\* C6: an acceptance flag that is true becomes false only in a Place that hits
\* a group, and a resigned flag that is true stays true in every step.
C6_AcceptanceAndResignationMonotone ==
    [][\A i \in SeatIdx :
          /\ (players_accepted[i] /\ ~players_accepted'[i]) =>
                (last'.kind = "Place" /\ last'.hit)
          /\ shared.seats[i].resigned => shared'.seats[i].resigned]_vars

\* A Place on a point without a group left standing the acceptance one seat
\* had given by Pass, next to a seat that has not accepted.
C6_Witness ==
    /\ last.kind = "Place" /\ ~last.hit
    /\ \E i, j \in SeatIdx :
          /\ prev.players_accepted[i] /\ ~shared.seats[i].resigned /\ players_accepted[i]
          /\ ~players_accepted[j]

\* ------------------------------------------------------------------ C7
HeldBy(seats, p) == {i \in DOMAIN seats : seats[i].player = Some(p)}

FanOut(p) ==
    /\ DOMAIN players_accepted = DOMAIN prev.players_accepted
    /\ \A i \in SeatIdx :
          players_accepted[i] = (i \in HeldBy(prev.seats, p) \/ prev.players_accepted[i])
    /\ groups = prev.groups
    /\ points = prev.points
    /\ scores = prev.scores

\* C7: a Pass by player p sets players_accepted for exactly the seats whose
\* player is p and changes no other acceptance flag, no resigned flag, and not
\* groups, points or scores; a Resign by p does the same and sets resigned for
\* exactly the seats whose player is p.
C7_PassAndResignFanOut ==
    /\ last.kind = "Pass" => (FanOut(last.player) /\ shared.seats = prev.seats)
    /\ last.kind = "Resign" =>
          /\ FanOut(last.player)
          /\ DOMAIN shared.seats = DOMAIN prev.seats
          /\ \A i \in SeatIdx :
                /\ shared.seats[i].player = prev.seats[i].player
                /\ shared.seats[i].resigned =
                      (i \in HeldBy(prev.seats, last.player) \/ prev.seats[i].resigned)

\* One Pass set the acceptance of both seats of a player holding two.
C7_Witness ==
    /\ last.kind = "Pass"
    /\ Cardinality(HeldBy(shared.seats, last.player)) = 2
    /\ \A i \in SeatIdx : ~prev.players_accepted[i] /\ players_accepted[i]

\* ------------------------------------------------------------------ C8
UnknownPlayerActed ==
    /\ last.kind \in {"Pass", "Resign"}
    /\ HeldBy(prev.seats, last.player) = {}

\* C8 as stated: a Pass or Resign by a player who controls no seat changes
\* nothing and returns no-change.
C8_UnknownPlayerReturnsNoChange ==
    UnknownPlayerActed => (Snapshot = prev /\ change = "None")

\* C8 (amended): a Pass or Resign by a player who controls no seat changes no
\* flag, group, point or score; it returns no-change unless every seat was
\* already accepted (every seat resigned at construction, or no seat at all),
\* and then it returns replace-with-Done.
C8_UnknownPlayerChangesNothing ==
    UnknownPlayerActed =>
        /\ Snapshot = prev
        /\ change = IF AllAccepted(prev.players_accepted) THEN "SwapState" ELSE "None"

\* A player without a seat resigned while a seat held by another player and an
\* unassigned seat had not accepted.
C8_Witness ==
    /\ UnknownPlayerActed /\ last.kind = "Resign"
    /\ change = "None"
    /\ \E i, j \in SeatIdx :
          /\ shared.seats[i].player = None /\ ~players_accepted[i]
          /\ shared.seats[j].player # None /\ ~players_accepted[j]

\* ------------------------------------------------------------------ C9
\* C9: a Cancel returns pop whatever the player and the acceptance flags, and
\* changes no group, point, score, acceptance flag or resigned flag.
C9_CancelPopsAndChangesNothing ==
    last.kind = "Cancel" => (change = "PopState" /\ Snapshot = prev)

\* A Cancel by a player without a seat, with one seat accepted and one not.
C9_Witness ==
    /\ last.kind = "Cancel"
    /\ HeldBy(shared.seats, last.player) = {}
    /\ \E i, j \in SeatIdx : players_accepted[i] /\ ~players_accepted[j]

\* ----------------------------------------------------------------- C10
HitGroups == {i \in 1..Len(prev.groups) : last.point \in prev.groups[i].points}

FullUpdate ==
    /\ Len(groups) = Len(prev.groups)
    /\ \E g \in HitGroups :
          \A i \in 1..Len(groups) :
              groups[i] = [prev.groups[i] EXCEPT !.alive = IF i = g THEN ~@ ELSE @]
    /\ C2_RegionsOwnedBySingleBorderColor
    /\ \A p \in BoardCoords(shared.board) : Covered(p) =>
          \E i \in 1..Len(groups) :
              groups[i].alive /\ p \in groups[i].points /\ get_point(points, p) = groups[i].team
    /\ C3_ScoreIsBaselinePlusTwicePoints
    /\ \A i \in SeatIdx : players_accepted[i] = shared.seats[i].resigned

\* C10: a Place on a point that belongs to no group returns no-change and
\* changes nothing; a Place on a point of a group flips that group's flag,
\* rescores the board, recomputes the scores and resets the acceptances.
C10_PlaceAppliesFullyOrNotAtAll ==
    last.kind = "Place" =>
        /\ change = "None"
        /\ shared.seats = prev.seats
        /\ IF HitGroups = {} THEN Snapshot = prev ELSE FullUpdate

\* A Place on an empty point of the board left standing an acceptance given by
\* Pass.
C10_Witness ==
    /\ last.kind = "Place"
    /\ last.point \in BoardCoords(shared.board)
    /\ HitGroups = {}
    /\ \E i \in SeatIdx : players_accepted[i] /\ ~shared.seats[i].resigned

\* ----------------------------------------------------------------- C11
OutOfRangePlace ==
    last.kind = "Place" /\ last.point \notin BoardCoords(shared.board)

\* C11: a Place whose coordinate addresses no cell of the board is rejected:
\* its outcome differs from the outcome of a Place on a valid point without a
\* group, which is no-change with the state untouched.
C11_OutOfRangePlaceRejected ==
    OutOfRangePlace => ~(change = "None" /\ Snapshot = prev)

\* ----------------------------------------------------------------- C12
\* C12: in every reachable state a resigned seat is accepted.
C12_ResignedImpliesAccepted ==
    /\ DOMAIN players_accepted = SeatIdx
    /\ \A i \in SeatIdx : shared.seats[i].resigned => players_accepted[i]

\* A dispute left the resigned seat accepted next to a seat that is neither
\* resigned nor accepted.
C12_Witness ==
    /\ last.kind = "Place" /\ last.hit
    /\ \E i, j \in SeatIdx :
          /\ shared.seats[i].resigned /\ players_accepted[i]
          /\ ~shared.seats[j].resigned /\ ~players_accepted[j]

\* ----------------------------------------------------------------- C13
\* The flood fill of score_board started at the k-th candidate instead of the
\* last one.
FloodFrom(b, legal_points, k) ==
    FloodFill(b, [stack |-> <<legal_points[k]>>,
                  legal_points |-> SubSeq(legal_points, 1, k - 1)
                                      \o SubSeq(legal_points, k + 1, Len(legal_points)),
                  seen |-> {},
                  marked |-> <<>>,
                  collisions |-> Zero])

\* The boards the region loop can return when every flood fill may start at
\* any of the candidates left.
RECURSIVE ScoreAnyOrder(_, _)
ScoreAnyOrder(b, legal_points) ==
    IF legal_points = <<>> THEN {b}
    ELSE UNION {LET f == FloodFrom(b, legal_points, k)
                IN ScoreAnyOrder(MarkTerritory(b, f), f.legal_points) :
                    k \in 1..Len(legal_points)}

\* C13: whichever candidate starts each flood fill, and so in whatever order
\* the regions are processed, the board returned is the one score_board
\* returns for the board and the groups.
C13_ResultIndependentOfStartPoints ==
    LET b == FillLiving(BoardEmpty(shared.board.width, shared.board.height,
                                   shared.board.toroidal), groups)
    IN ScoreAnyOrder(b, EmptyPoints(b)) = {score_board(shared.board, groups)}

\* After a dispute the board has two regions, one of them of two points or more
\* and attributed to a team: the starts and the order of the regions can be
\* chosen.
C13_Witness ==
    \E p, q, r \in BoardCoords(shared.board) :
        /\ last.kind = "Place" /\ last.hit
        /\ ~Covered(p) /\ ~Covered(q) /\ ~Covered(r)
        /\ q \notin RegionFrom({p})
        /\ r # p /\ r \in RegionFrom({p})
        /\ get_point(points, p) # 0

\* ----------------------------------------------------------------- C14
\* The region loop of score_board with a record per flood fill: the start
\* point, the points marked in the order they left the queue, and the
\* candidates before and after.
RECURSIVE RegionTrace(_, _)
RegionTrace(b, legal_points) ==
    IF legal_points = <<>> THEN <<>>
    ELSE LET point == legal_points[Len(legal_points)]
             f == FloodFrom(b, legal_points, Len(legal_points))
         IN <<[start |-> point, marked |-> f.marked, before |-> legal_points,
               after |-> f.legal_points, collisions |-> f.collisions]>>
            \o RegionTrace(MarkTerritory(b, f), f.legal_points)

Stamped ==
    FillLiving(BoardEmpty(shared.board.width, shared.board.height, shared.board.toroidal),
               groups)

Floods == RegionTrace(Stamped, EmptyPoints(Stamped))

\* Neighbours through the wraparound edge only.
WrapOnly(p, q) ==
    /\ shared.board.toroidal
    /\ p # q
    /\ Adjacent(p, q)
    /\ q \notin SeqToSet(surrounding_points([shared.board EXCEPT !.toroidal = FALSE], p))

RowOfFour == [width |-> 4, height |-> 1, toroidal |-> TRUE, points |-> <<1, 0, 0, 0>>]

\* C14: on a toroidal board two empty points that are neighbours through the
\* wraparound edge are marked by the same flood fill and get the same color;
\* on the toroidal row of width 4 with one alive team-1 stone at x = 0 every
\* point is attributed to team 1 and team 1 scores its baseline + 2 * 4.
C14_WraparoundJoinsRegions ==
    /\ LET floods == Floods
       IN \A p, q \in BoardCoords(shared.board) :
             (~Covered(p) /\ ~Covered(q) /\ WrapOnly(p, q)) =>
                 /\ get_point(points, p) = get_point(points, q)
                 /\ \E k \in 1..Len(floods) :
                       {p, q} \subseteq SeqToSet(floods[k].marked)
    /\ (shared.board = RowOfFour /\ \A i \in 1..Len(groups) : groups[i].alive) =>
          /\ points.points = <<1, 1, 1, 1>>
          /\ scores[1] = shared.points[1] + 2 * 4

\* Two empty points joined through the wraparound edge only, on a board the
\* bounded neighbour relation would score differently.
C14_Witness ==
    /\ \E p, q \in BoardCoords(shared.board) : ~Covered(p) /\ ~Covered(q) /\ WrapOnly(p, q)
    /\ score_board([shared.board EXCEPT !.toroidal = FALSE], groups).points # points.points

\* ----------------------------------------------------------------- C16
\* C16: in every reachable state the stored territory board is the Territory
\* Scorer's result for the shared board and the groups with their current
\* alive flags.
C16_PointsNeverStale == points = score_board(shared.board, groups)

\* A dispute changed an alive flag and the territory board with it.
C16_Witness ==
    /\ last.kind = "Place" /\ last.hit
    /\ groups # prev.groups
    /\ points # prev.points

\* ----------------------------------------------------------------- C17
AllDead == \A i \in 1..Len(groups) : ~groups[i].alive

\* C17: every point of an alive group carries the group's team; every point
\* of a dead group is scored as an empty point, neutral or attributed to the
\* single team bordering its region; with every group dead the whole board is
\* neutral and every score is its baseline.
C17_AliveStampedDeadVacated ==
    /\ \A i \in 1..Len(groups) : \A p \in groups[i].points :
          get_point(points, p) =
              IF groups[i].alive THEN groups[i].team ELSE RegionOwner(RegionFrom({p}))
    /\ AllDead =>
          /\ \A p \in BoardCoords(shared.board) : get_point(points, p) = 0
          /\ scores = shared.points

\* A dead stone lies in the territory of the other team, whose group is alive.
C17_Witness ==
    \E i, j \in 1..Len(groups) : \E p \in groups[i].points :
        /\ ~groups[i].alive
        /\ groups[j].alive
        /\ groups[j].team # groups[i].team
        /\ get_point(points, p) = groups[j].team

\* ----------------------------------------------------------------- C18
Occurrences(s, x) == Cardinality({i \in 1..Len(s) : s[i] = x})

\* C18: the region loop ends after at most one flood fill per empty point and
\* every flood fill after at most one queue entry per point of its region
\* plus one for its start. A point reached leaves the candidates at once, no
\* flood fill starts at a point an earlier one marked, and every empty point
\* is marked by exactly one flood fill.
C18_EachPointFloodedOnce ==
    LET floods == Floods
        marked == [k \in 1..Len(floods) |-> SeqToSet(floods[k].marked)]
    IN /\ Len(floods) <= Len(EmptyPoints(Stamped))
       /\ \A k \in 1..Len(floods) :
             /\ floods[k].start \in SeqToSet(floods[k].before)
             /\ floods[k].start \in marked[k]
             /\ SeqToSet(floods[k].after) = SeqToSet(floods[k].before) \ marked[k]
             /\ \A p \in marked[k] :
                   Occurrences(floods[k].marked, p) <= (IF p = floods[k].start THEN 2 ELSE 1)
             /\ \A j \in 1..(k - 1) : marked[j] \cap marked[k] = {}
       /\ \A p \in BoardCoords(shared.board) :
             Cardinality({k \in 1..Len(floods) : p \in marked[k]}) =
                 (IF Covered(p) THEN 0 ELSE 1)

\* On a toroidal board where a point is its own neighbour, a flood fill marked
\* two points or more and met its start again.
C18_Witness ==
    /\ shared.board.toroidal
    /\ \E p \in BoardCoords(shared.board) : ~Covered(p) /\ Adjacent(p, p)
    /\ LET floods == Floods
       IN \E k \in 1..Len(floods) :
             /\ Cardinality(SeqToSet(floods[k].marked)) >= 2
             /\ Occurrences(floods[k].marked, floods[k].start) = 2

\* ----------------------------------------------------------------- C19
\* C19: in every reachable state players_accepted has exactly one entry per
\* seat of shared.seats, in the same index order.
C19_OneAcceptanceFlagPerSeat ==
    /\ Len(players_accepted) = Len(shared.seats)
    /\ DOMAIN players_accepted = DOMAIN shared.seats
    /\ \A i \in SeatIdx : players_accepted[i] \in BOOLEAN

\* The seat-indexed loops of a Place and of a Resign ran over two seats, one
\* of them unassigned.
C19_Witness ==
    /\ last.kind = "Place" /\ last.hit
    /\ Len(shared.seats) = 2
    /\ \E i, j \in SeatIdx :
          /\ shared.seats[i].player = None
          /\ shared.seats[j].resigned /\ ~prev.players_accepted[i]

\* ----------------------------------------------------------------- C20
Unclaimed == {i \in SeatIdx : shared.seats[i].player = None /\ ~shared.seats[i].resigned}

\* C20: a seat that is unassigned and not resigned is never accepted, and
\* while there is such a seat no action returns replace-with-Done.
C20_UnassignedSeatBlocksDone ==
    /\ \A i \in Unclaimed : ~players_accepted[i]
    /\ Unclaimed # {} => change # "SwapState"

\* Next to an unassigned seat, the player of the other seat passed or resigned
\* and got no-change.
C20_Witness ==
    /\ last.kind \in {"Pass", "Resign"}
    /\ change = "None"
    /\ Unclaimed # {}
    /\ \E j \in SeatIdx : shared.seats[j].player = Some(last.player) /\ players_accepted[j]

\* ----------------------------------------------------------------- C15
\* A step that is not a Place hitting a group.
NoDispute == ~(last'.kind = "Place" /\ last'.hit)

EverySeatClaimed ==
    \A i \in SeatIdx : shared.seats[i].resigned \/ shared.seats[i].player # None

\* C15 as stated: if every non-resigned seat is assigned and, from some point
\* on, no Place hits a group and no Cancel occurs, while every player holding a
\* seat that has not accepted eventually passes or resigns (SpecLive), then
\* replace-with-Done is eventually returned.
C15_EventuallyDone ==
    (EverySeatClaimed /\ [](change # "PopState") /\ <>[][NoDispute]_vars)
        => <>(change = "SwapState")

\* C15 (amended): the same, when some seat has not accepted at construction;
\* and the action after which all flags are true, not all being true before
\* it, is the one that returns replace-with-Done.
C15_EventuallyDoneWhenSomeSeatOpen ==
    /\ (/\ EverySeatClaimed
        /\ ~AllAccepted(players_accepted)
        /\ [](change # "PopState")
        /\ <>[][NoDispute]_vars)
           => <>(change = "SwapState")
    /\ [](AllAccepted(players_accepted) /\ ~AllAccepted(prev.players_accepted)
             => change = "SwapState")

\* Two players hold a seat each; one had accepted, and the Pass or Resign of
\* the other, the last seat open, returned Done.
C15_Witness ==
    /\ change = "SwapState"
    /\ EverySeatClaimed
    /\ \E i, j \in SeatIdx :
          /\ shared.seats[i].player = Some(last.player)
          /\ shared.seats[j].player \notin {None, Some(last.player)}
          /\ ~shared.seats[j].resigned
          /\ ~prev.players_accepted[i] /\ prev.players_accepted[j]

====
